---- MODULE Spec2Model ----
(***************************************************************************)
(* Model of the bestbuy-2.0 store: products (products.py), promotions      *)
(* (promotions.py) and the Store catalog with order settlement (store.py). *)
(* Prices are whole currency units, as every price of main.py and of       *)
(* test_product.py is; the amounts that buy, apply_promotion and order     *)
(* return are counted in hundredths of a unit (the code prints them with   *)
(* two decimals), so that the true division product.price / 2 of           *)
(* SecondHalfPrice is exact for every price.                               *)
(***************************************************************************)
EXTENDS Integers, Sequences, FiniteSets, TLC

\* products: the product objects; catalog: Store._products; shopping_list:
\* the argument a caller is assembling for Store.order; last: the most recent
\* call and its result; sold_out: history of the products whose stock a
\* purchase has driven to 0.
VARIABLES products, catalog, shopping_list, last, sold_out

vars == <<products, catalog, shopping_list, last, sold_out>>

--------------------------------------------------------------------------
(* Bounds *)

MaxStock == 2
MaxQty == 3
MaxLines == 3
MaxCatalog == 3
MaxOther == 2
MaxShopLines == 2
MaxListLines == 1

--------------------------------------------------------------------------
(* The product objects of the model.  Object identities are 1..3; kind,   *)
(* name, price and maximum are fixed at construction.                     *)

Pids == 1..3

KindOf(p) == CASE p = 1 -> "Product"
               [] p = 2 -> "NonStockedProduct"
               [] p = 3 -> "LimitedProduct"

NameOf(p) == CASE p = 1 -> "MacBook"
               [] p = 2 -> "License"
               [] p = 3 -> "MacBook"

PriceOf(p) == CASE p = 1 -> 10
                [] p = 2 -> 100
                [] p = 3 -> 10

MaximumOf(p) == 1

StockRange == 0..MaxStock
QtyRange == (-1)..MaxQty

--------------------------------------------------------------------------
(* promotions.py *)

NoPromotion == [type |-> "None", percent |-> 0]

\* Percentages and unit prices used when a promotion is applied on its own.
Percents == {10, 30, 50}
Prices == {0, 10, 100, 125, 150, 250, 500, 1450}

Promotions ==
  {[type |-> "SecondHalfPrice", percent |-> 0],
   [type |-> "ThirdOneFree", percent |-> 0]}
  \cup {[type |-> "PercentDiscount", percent |-> pc] : pc \in Percents}

\* The promotion catalog of main(): "Second Half price!", "Third One Free!"
\* and "30% Off!".
ShopPromotions ==
  {[type |-> "SecondHalfPrice", percent |-> 0],
   [type |-> "ThirdOneFree", percent |-> 0],
   [type |-> "PercentDiscount", percent |-> 30]}

\* An amount of whole currency units in hundredths of a unit.
Cents(amount) == 100 * amount

\* SecondHalfPrice.apply_promotion: the statement on line 51 is a separate
\* expression statement (unary plus), so only line 50 defines total_price.
SecondHalfPrice(price, quantity) ==
  LET half_qty == quantity - (quantity \div 2)
      half_price == price * 50
  IN half_qty * half_price

\* ThirdOneFree giving away every second unit instead of every third
ThirdOneFreeEverySecond(price, quantity) ==
  LET tertiar_qty == quantity \div 2
  IN Cents((quantity - tertiar_qty) * price)

ThirdOneFree(price, quantity) ==
  LET tertiar_qty == quantity \div 3
  IN Cents((quantity - tertiar_qty) * price)

\* PercentDiscount.apply_promotion: line 91 is a separate expression
\* statement (unary minus), so discount_price is the undiscounted price.
PercentDiscount(percent, price, quantity) ==
  LET discount_price == price
  IN Cents(discount_price * quantity)

apply_promotion(promo, price, quantity) ==
  CASE promo.type = "SecondHalfPrice" -> SecondHalfPrice(price, quantity)
    [] promo.type = "ThirdOneFree" -> ThirdOneFree(price, quantity)
    [] promo.type = "PercentDiscount" ->
         PercentDiscount(promo.percent, price, quantity)

--------------------------------------------------------------------------
(* products.py *)

\* Result of a call: err is "none" or the exception raised, ret the value
\* returned (0 when the call returns nothing or raises), obj the product
\* after the call.
Outcome(err, ret, obj) == [err |-> err, ret |-> ret, obj |-> obj]

\* The quantity setter deactivating only below 0 instead of below 1
SetQuantityKeepsActive(prod, quantity) ==
  IF prod.kind = "NonStockedProduct"
    THEN Outcome("none", 0, prod)
    ELSE IF quantity < 0
      THEN Outcome("ValueError", 0, prod)
      ELSE Outcome("none", 0, [prod EXCEPT !.quantity = quantity])

\* The quantity setter without the check of line 104
SetQuantityAcceptsNegative(prod, quantity) ==
  IF prod.kind = "NonStockedProduct"
    THEN Outcome("none", 0, prod)
    ELSE Outcome("none", 0,
           [prod EXCEPT !.active = IF quantity < 1 THEN FALSE ELSE @,
                        !.quantity = quantity])

\* The quantity setter storing 0 for a negative value instead of raising
SetQuantityClamps(prod, quantity) ==
  IF prod.kind = "NonStockedProduct"
    THEN Outcome("none", 0, prod)
    ELSE IF quantity < 0
      THEN Outcome("none", 0, [prod EXCEPT !.active = FALSE, !.quantity = 0])
      ELSE Outcome("none", 0,
             [prod EXCEPT !.active = IF quantity < 1 THEN FALSE ELSE @,
                          !.quantity = quantity])

\* Product.quantity setter / NonStockedProduct.quantity setter
SetQuantity(prod, quantity) ==
  IF prod.kind = "NonStockedProduct"
    THEN Outcome("none", 0, prod)
    ELSE IF quantity < 0
      THEN Outcome("ValueError", 0, prod)
      ELSE Outcome("none", 0,
             [prod EXCEPT !.active = IF quantity < 1 THEN FALSE ELSE @,
                          !.quantity = quantity])

\* The constructors without the price check of line 70
NewProductAnyPrice(kind, name, price, quantity, maximum) ==
  LET fresh == [kind |-> kind, name |-> name, price |-> price,
                quantity |-> 0, active |-> TRUE,
                promotion |-> NoPromotion, maximum |-> maximum]
      qty == IF kind = "NonStockedProduct" THEN 0 ELSE quantity
  IN IF name = "" THEN Outcome("ValueError", 0, fresh)
     ELSE IF qty < 0 THEN Outcome("ValueError", 0, fresh)
     ELSE IF kind = "LimitedProduct" /\ maximum < 1
       THEN Outcome("ValueError", 0, fresh)
     ELSE SetQuantity(fresh, qty)

\* Product.__init__, NonStockedProduct.__init__, LimitedProduct.__init__
NewProduct(kind, name, price, quantity, maximum) ==
  LET fresh == [kind |-> kind, name |-> name, price |-> price,
                quantity |-> 0, active |-> TRUE,
                promotion |-> NoPromotion, maximum |-> maximum]
      qty == IF kind = "NonStockedProduct" THEN 0 ELSE quantity
  IN IF name = "" THEN Outcome("ValueError", 0, fresh)
     ELSE IF price < 0 THEN Outcome("ValueError", 0, fresh)
     ELSE IF qty < 0 THEN Outcome("ValueError", 0, fresh)
     ELSE IF kind = "LimitedProduct" /\ maximum < 1
       THEN Outcome("ValueError", 0, fresh)
     ELSE SetQuantity(fresh, qty)

\* The line total of a successful purchase (tail of every buy method).
LineTotal(prod, quantity) ==
  IF prod.promotion # NoPromotion
    THEN apply_promotion(prod.promotion, prod.price, quantity)
    ELSE Cents(quantity * prod.price)

\* Product.buy without the stock update of line 179
ProductBuyKeepsStock(prod, quantity) ==
  IF quantity <= 0 THEN Outcome("ValueError", 0, prod)
  ELSE IF prod.quantity - quantity < 0
    THEN Outcome("OutOfStockValueError", 0, prod)
  ELSE Outcome("none", LineTotal(prod, quantity), prod)

\* Product.buy with the stock check of line 177 off by one
ProductBuyOversells(prod, quantity) ==
  IF quantity <= 0 THEN Outcome("ValueError", 0, prod)
  ELSE IF prod.quantity - quantity < -1
    THEN Outcome("OutOfStockValueError", 0, prod)
  ELSE Outcome("none", LineTotal(prod, quantity),
               SetQuantity(prod, prod.quantity - quantity).obj)

\* Product.buy charging quantity * price whatever promotion is attached
ProductBuyIgnoresPromotion(prod, quantity) ==
  IF quantity <= 0 THEN Outcome("ValueError", 0, prod)
  ELSE IF prod.quantity - quantity < 0
    THEN Outcome("OutOfStockValueError", 0, prod)
  ELSE Outcome("none", Cents(quantity * prod.price),
               SetQuantity(prod, prod.quantity - quantity).obj)

\* Product.buy
ProductBuy(prod, quantity) ==
  IF quantity <= 0 THEN Outcome("ValueError", 0, prod)
  ELSE IF prod.quantity - quantity < 0
    THEN Outcome("OutOfStockValueError", 0, prod)
  ELSE Outcome("none", LineTotal(prod, quantity),
               SetQuantity(prod, prod.quantity - quantity).obj)

\* NonStockedProduct.buy with the stock check of Product.buy
NonStockedBuyChecksStock(prod, quantity) ==
  IF quantity <= 0 THEN Outcome("ValueError", 0, prod)
  ELSE IF prod.quantity - quantity < 0
    THEN Outcome("OutOfStockValueError", 0, prod)
  ELSE Outcome("none", LineTotal(prod, quantity), prod)

\* NonStockedProduct.buy
NonStockedBuy(prod, quantity) ==
  IF quantity <= 0 THEN Outcome("ValueError", 0, prod)
  ELSE Outcome("none", LineTotal(prod, quantity), prod)

\* LimitedProduct.buy with the stock check ahead of the maximum check
LimitedBuyStockFirst(prod, quantity) ==
  IF quantity <= 0 THEN Outcome("ValueError", 0, prod)
  ELSE IF prod.quantity - quantity < 0
    THEN Outcome("OutOfStockValueError", 0, prod)
  ELSE IF prod.maximum < quantity
    THEN Outcome("MaximumValueError", 0, prod)
  ELSE Outcome("none", LineTotal(prod, quantity),
               SetQuantity(prod, prod.quantity - quantity).obj)

\* LimitedProduct.buy
LimitedBuy(prod, quantity) ==
  IF quantity <= 0 THEN Outcome("ValueError", 0, prod)
  ELSE IF prod.maximum < quantity
    THEN Outcome("MaximumValueError", 0, prod)
  ELSE IF prod.quantity - quantity < 0
    THEN Outcome("OutOfStockValueError", 0, prod)
  ELSE Outcome("none", LineTotal(prod, quantity),
               SetQuantity(prod, prod.quantity - quantity).obj)

\* Dynamic dispatch of product.buy(quantity)
buy(prod, quantity) ==
  CASE prod.kind = "Product" -> ProductBuy(prod, quantity)
    [] prod.kind = "NonStockedProduct" -> NonStockedBuy(prod, quantity)
    [] prod.kind = "LimitedProduct" -> LimitedBuy(prod, quantity)

--------------------------------------------------------------------------
(* store.py *)

\* Store.__contains__ comparing the product objects instead of the names
ContainsSameObject(list, p) ==
  \E i \in 1..Len(list) : list[i] = p

\* Store.__contains__ (name check against the store's product list)
Contains(list, p) ==
  \E i \in 1..Len(list) : products[list[i]].name = products[p].name

\* list.pop(index) with a 0-based index
Pop(list, index) ==
  [i \in 1..(Len(list) - 1) |->
     IF i <= index THEN list[i] ELSE list[i + 1]]

\* Store.remove_product: the for loop walks self._products with the list
\* iterator (position == index, both advance once per iteration) while
\* pop(index) shortens the same list.
RECURSIVE RemoveLoop(_, _, _)
RemoveLoop(list, index, name) ==
  IF index >= Len(list) THEN list
  ELSE IF products[list[index + 1]].name = name
    THEN RemoveLoop(Pop(list, index), index + 1, name)
    ELSE RemoveLoop(list, index + 1, name)

remove_product(list, p) == RemoveLoop(list, 0, products[p].name)

\* Store.__add__: new_store is built on self._products itself (the same
\* list object), so add_product appends to the receiver's list.  k is the
\* position in other_store.products; the result carries the shared list.
RECURSIVE AddLoop(_, _, _)
AddLoop(list, other, k) ==
  IF k > Len(other) THEN [err |-> "none", list |-> list, at |-> 0]
  ELSE IF ~Contains(list, other[k])
    THEN AddLoop(Append(list, other[k]), other, k + 1)
    ELSE [err |-> "ValueError", list |-> list, at |-> k]

\* Store.get_all_products
get_all_products(list) ==
  SelectSeq(list, LAMBDA p : products[p].active)

\* Store.get_total_quantity summing over the active products only
RECURSIVE TotalQuantityOfActive(_)
TotalQuantityOfActive(list) ==
  IF list = <<>> THEN 0
  ELSE (IF products[Head(list)].active
          THEN products[Head(list)].quantity ELSE 0)
       + TotalQuantityOfActive(Tail(list))

\* Store.get_total_quantity
RECURSIVE get_total_quantity(_)
get_total_quantity(list) ==
  IF list = <<>> THEN 0
  ELSE products[Head(list)].quantity + get_total_quantity(Tail(list))

\* One shopping-list line as seen by Store.order: the product before the
\* buy call, the call's outcome and the product after it.
TraceEntry(line, before, r) ==
  [pid |-> line[1], qty |-> line[2], err |-> r.err, ret |-> r.ret,
   before |-> before.quantity, after |-> r.obj.quantity]

\* Store.order leaving the loop at the first refused line
RECURSIVE OrderLoopStopsAtFailure(_, _, _, _, _)
OrderLoopStopsAtFailure(lines, i, prods, total_price, trace) ==
  IF i > Len(lines)
    THEN [err |-> "none", ret |-> total_price, prods |-> prods,
          trace |-> trace]
  ELSE LET line == lines[i]
           r == buy(prods[line[1]], line[2])
           tr == Append(trace, TraceEntry(line, prods[line[1]], r))
       IN IF r.err = "none"
            THEN OrderLoopStopsAtFailure(lines, i + 1,
                           [prods EXCEPT ![line[1]] = r.obj],
                           total_price + r.ret, tr)
          ELSE IF r.err \in {"OutOfStockValueError", "MaximumValueError"}
            THEN [err |-> "none", ret |-> total_price, prods |-> prods,
                  trace |-> tr]
          ELSE [err |-> r.err, ret |-> 0, prods |-> prods, trace |-> tr]

\* Store.order catching ValueError per line as well
RECURSIVE OrderLoopCatchesAll(_, _, _, _, _)
OrderLoopCatchesAll(lines, i, prods, total_price, trace) ==
  IF i > Len(lines)
    THEN [err |-> "none", ret |-> total_price, prods |-> prods,
          trace |-> trace]
  ELSE LET line == lines[i]
           r == buy(prods[line[1]], line[2])
           tr == Append(trace, TraceEntry(line, prods[line[1]], r))
       IN IF r.err = "none"
            THEN OrderLoopCatchesAll(lines, i + 1,
                           [prods EXCEPT ![line[1]] = r.obj],
                           total_price + r.ret, tr)
          ELSE OrderLoopCatchesAll(lines, i + 1, prods, total_price, tr)

\* Store.order restoring the products when a line raises ValueError
RECURSIVE OrderLoopRollsBack(_, _, _, _, _)
OrderLoopRollsBack(lines, i, prods, total_price, trace) ==
  IF i > Len(lines)
    THEN [err |-> "none", ret |-> total_price, prods |-> prods,
          trace |-> trace]
  ELSE LET line == lines[i]
           r == buy(prods[line[1]], line[2])
           tr == Append(trace, TraceEntry(line, prods[line[1]], r))
       IN IF r.err = "none"
            THEN OrderLoopRollsBack(lines, i + 1,
                           [prods EXCEPT ![line[1]] = r.obj],
                           total_price + r.ret, tr)
          ELSE IF r.err \in {"OutOfStockValueError", "MaximumValueError"}
            THEN OrderLoopRollsBack(lines, i + 1, prods, total_price, tr)
          ELSE [err |-> r.err, ret |-> 0, prods |-> products, trace |-> tr]

\* Store.order: OutOfStockValueError and MaximumValueError are caught per
\* line, any other exception (ValueError) leaves the loop and the call.
RECURSIVE OrderLoop(_, _, _, _, _)
OrderLoop(lines, i, prods, total_price, trace) ==
  IF i > Len(lines)
    THEN [err |-> "none", ret |-> total_price, prods |-> prods,
          trace |-> trace]
  ELSE LET line == lines[i]
           r == buy(prods[line[1]], line[2])
           tr == Append(trace, TraceEntry(line, prods[line[1]], r))
       IN IF r.err = "none"
            THEN OrderLoop(lines, i + 1,
                           [prods EXCEPT ![line[1]] = r.obj],
                           total_price + r.ret, tr)
          ELSE IF r.err \in {"OutOfStockValueError", "MaximumValueError"}
            THEN OrderLoop(lines, i + 1, prods, total_price, tr)
          ELSE [err |-> r.err, ret |-> 0, prods |-> prods, trace |-> tr]

order(lines) == OrderLoop(lines, 1, products, 0, <<>>)

--------------------------------------------------------------------------
(* State *)

\* The record of the most recent call: its arguments, the state it
\* started from and what it returned or raised.
NoCall ==
  [op |-> "none", pid |-> 0, qty |-> 0, promo |-> NoPromotion, price |-> 0,
   err |-> "none", ret |-> 0, pre |-> <<>>, precat |-> <<>>,
   lines |-> <<>>, trace |-> <<>>, other |-> <<>>, out |-> <<>>, at |-> 0,
   kind |-> "none", name |-> "", maximum |-> 0, active |-> FALSE]

Call(op) == [NoCall EXCEPT !.op = op, !.pre = products, !.precat = catalog]

\* The product list as the constructors build it (main.py 101-107).
Constructed(stock) ==
  [p \in Pids |->
     NewProduct(KindOf(p), NameOf(p), PriceOf(p), stock[p], MaximumOf(p)).obj]

\* The promotions main() attaches (main.py 115-117): second-half-price on
\* the first product, 30% off on the licence, none on the limited product.
ShopConfig(p) == CASE p = 1 -> [type |-> "SecondHalfPrice", percent |-> 0]
                   [] p = 2 -> [type |-> "PercentDiscount", percent |-> 30]
                   [] p = 3 -> NoPromotion

\* The store once it is built: the products as constructed, either
\* without promotions (test_product.py) or with those of main(), and
\* Store(product_list).
Init ==
  /\ \E stock \in [Pids -> StockRange], promoted \in BOOLEAN :
       products = [p \in Pids |->
                     [Constructed(stock)[p] EXCEPT
                        !.promotion = IF promoted THEN ShopConfig(p)
                                      ELSE NoPromotion]]
  /\ catalog = <<1, 2, 3>>
  /\ shopping_list = <<>>
  /\ sold_out = {}
  /\ last = [NoCall EXCEPT !.pre = products, !.precat = catalog]

--------------------------------------------------------------------------
(* Product operations *)

Buy(p, q) ==
  LET r == buy(products[p], q)
  IN /\ products' = [products EXCEPT ![p] = r.obj]
     /\ last' = [Call("buy") EXCEPT !.pid = p, !.qty = q,
                                    !.err = r.err, !.ret = r.ret]
     /\ UNCHANGED <<catalog, shopping_list>>

SetStock(p, n) ==
  LET r == SetQuantity(products[p], n)
  IN /\ products' = [products EXCEPT ![p] = r.obj]
     /\ last' = [Call("set_quantity") EXCEPT !.pid = p, !.qty = n,
                                             !.err = r.err]
     /\ UNCHANGED <<catalog, shopping_list, sold_out>>

Activate(p) ==
  /\ products' = [products EXCEPT ![p].active = TRUE]
  /\ last' = [Call("activate") EXCEPT !.pid = p]
  /\ UNCHANGED <<catalog, shopping_list, sold_out>>

Deactivate(p) ==
  /\ products' = [products EXCEPT ![p].active = FALSE]
  /\ last' = [Call("deactivate") EXCEPT !.pid = p]
  /\ UNCHANGED <<catalog, shopping_list, sold_out>>

SetPromotion(p, promo) ==
  /\ products' = [products EXCEPT ![p].promotion = promo]
  /\ last' = [Call("set_promotion") EXCEPT !.pid = p, !.promo = promo]
  /\ UNCHANGED <<catalog, shopping_list, sold_out>>

GetAllProducts ==
  /\ last' = [Call("get_all_products") EXCEPT
                !.out = get_all_products(catalog)]
  /\ UNCHANGED <<products, catalog, shopping_list, sold_out>>

GetTotalQuantity ==
  /\ last' = [Call("get_total_quantity") EXCEPT
                !.ret = get_total_quantity(catalog)]
  /\ UNCHANGED <<products, catalog, shopping_list, sold_out>>

Next ==
  \/ \E p \in Pids, q \in QtyRange : Buy(p, q) /\ UNCHANGED sold_out
  \/ \E p \in Pids, n \in (-1)..MaxStock : SetStock(p, n)
  \/ \E p \in Pids : Activate(p)
  \/ \E p \in Pids : Deactivate(p)
  \/ \E p \in Pids, promo \in ShopPromotions \cup {NoPromotion} :
       SetPromotion(p, promo)
  \/ GetAllProducts
  \/ GetTotalQuantity

Spec == Init /\ [][Next]_vars

--------------------------------------------------------------------------
(* Promotions applied on their own: promotion.apply_promotion(product, q) *)
(* on a freshly constructed product of the given price.                   *)

ApplyPromotion(promo, price, q) ==
  LET product == NewProduct("Product", "MacBook", price, MaxStock, 1).obj
  IN /\ last' = [Call("apply_promotion") EXCEPT
                   !.promo = promo, !.price = price, !.qty = q,
                   !.ret = apply_promotion(promo, product.price, q)]
     /\ UNCHANGED <<products, catalog, shopping_list, sold_out>>

NextPromo ==
  \E promo \in Promotions, price \in Prices, q \in 1..MaxQty :
    ApplyPromotion(promo, price, q)

SpecPromo == Init /\ [][NextPromo]_vars

--------------------------------------------------------------------------
(* Orders: Store.order is a public method and takes any list of           *)
(* (product, quantity) pairs (store.py 102-110).  A caller of the method  *)
(* assembles that argument pair by pair; the pairs are not filtered, so   *)
(* the list can hold quantities below 1 and inactive products.  (The menu *)
(* of main.start is one such caller, and a stricter one: it only passes   *)
(* on amounts >= 1 of listed products.)                                   *)

\* The argument of Store.order grows by one (product, quantity) pair.
AddLine(p, q) ==
  /\ Len(shopping_list) < MaxLines
  /\ shopping_list' = Append(shopping_list, <<p, q>>)
  /\ last' = [Call("append") EXCEPT !.pid = p, !.qty = q]
  /\ UNCHANGED <<products, catalog, sold_out>>

Order ==
  LET r == order(shopping_list)
  IN /\ products' = r.prods
     /\ last' = [Call("order") EXCEPT !.lines = shopping_list,
                                      !.err = r.err, !.ret = r.ret,
                                      !.trace = r.trace]
     /\ shopping_list' = <<>>
     /\ UNCHANGED catalog

NextOrder ==
  \/ \E p \in Pids, q \in StockRange : AddLine(p, q)
  \/ Order /\ UNCHANGED sold_out

SpecOrder == Init /\ [][NextOrder]_vars

--------------------------------------------------------------------------
(* The catalog: products are added, removed by name and merged in from    *)
(* another store while purchases go on.  Orders, restocking and           *)
(* deactivation do not touch the catalog; they are part of the listing    *)
(* specification below.                                                   *)

Catalogs(n) == UNION {[1..k -> Pids] : k \in 0..n}

InitStore ==
  /\ \E stock \in [Pids -> StockRange] : products = Constructed(stock)
  /\ catalog = <<>>
  /\ shopping_list = <<>>
  /\ sold_out = {}
  /\ last = [NoCall EXCEPT !.pre = products, !.precat = catalog]

AddProduct(p) ==
  /\ Len(catalog) < MaxCatalog
  /\ catalog' = Append(catalog, p)
  /\ last' = [Call("add_product") EXCEPT !.pid = p]
  /\ UNCHANGED <<products, shopping_list, sold_out>>

RemoveProduct(p) ==
  /\ catalog' = remove_product(catalog, p)
  /\ last' = [Call("remove_product") EXCEPT !.pid = p]
  /\ UNCHANGED <<products, shopping_list, sold_out>>

\* self + other_store, other_store holding the product list other
Merge(other) ==
  LET r == AddLoop(catalog, other, 1)
  IN /\ Len(catalog) + Len(other) <= MaxCatalog
     /\ catalog' = r.list
     /\ last' = [Call("__add__") EXCEPT !.other = other, !.err = r.err,
                                        !.at = r.at, !.out = r.list]
     /\ UNCHANGED <<products, shopping_list, sold_out>>

\* History: a successful purchase that leaves a stock-tracked product
\* with stock 0 puts it into sold_out.
RecordSoldOut(p) ==
  sold_out' = IF /\ last'.err = "none"
                 /\ products[p].kind # "NonStockedProduct"
                 /\ products'[p].quantity = 0
              THEN sold_out \cup {p} ELSE sold_out

NextStore ==
  \/ \E p \in Pids : AddProduct(p)
  \/ \E p \in Pids : RemoveProduct(p)
  \/ \E other \in Catalogs(MaxOther) : Merge(other)
  \/ \E p \in Pids, q \in QtyRange : Buy(p, q) /\ RecordSoldOut(p)
  \/ \E p \in Pids : Activate(p)
  \/ GetAllProducts
  \/ GetTotalQuantity

SpecStore == InitStore /\ [][NextStore]_vars

--------------------------------------------------------------------------
(* Stock keeping: a store built on any product list, whose products are   *)
(* only bought and restocked (no explicit activate / deactivate).         *)

InitStock ==
  /\ \E stock \in [Pids -> StockRange] : products = Constructed(stock)
  /\ catalog \in Catalogs(MaxCatalog)
  /\ shopping_list = <<>>
  /\ sold_out = {}
  /\ last = [NoCall EXCEPT !.pre = products, !.precat = catalog]

NextStock ==
  \/ \E p \in Pids, q \in QtyRange : Buy(p, q) /\ UNCHANGED sold_out
  \/ \E p \in Pids, n \in (-1)..MaxStock : SetStock(p, n)
  \/ GetTotalQuantity

SpecStock == InitStock /\ [][NextStock]_vars

--------------------------------------------------------------------------
(* Construction: the three constructors called with valid and invalid    *)
(* arguments.  NonStockedProduct takes no quantity (it passes 0 on) and  *)
(* only LimitedProduct takes a maximum.                                  *)

Kinds == {"Product", "NonStockedProduct", "LimitedProduct"}
NewNames == {"", "MacBook"}
NewPrices == {-10, 0, 10}
NewQuantities(kind) ==
  IF kind = "NonStockedProduct" THEN {0} ELSE (-1)..MaxStock
NewMaxima(kind) == IF kind = "LimitedProduct" THEN 0..2 ELSE {1}

Construct(kind, name, price, quantity, maximum) ==
  LET r == NewProduct(kind, name, price, quantity, maximum)
  IN /\ last' = [Call("__init__") EXCEPT
                   !.kind = kind, !.name = name, !.price = price,
                   !.qty = quantity, !.maximum = maximum,
                   !.err = r.err, !.active = r.obj.active]
     /\ UNCHANGED <<products, catalog, shopping_list, sold_out>>

NextNew ==
  \E kind \in Kinds, name \in NewNames, price \in NewPrices :
    \E quantity \in NewQuantities(kind), maximum \in NewMaxima(kind) :
      Construct(kind, name, price, quantity, maximum)

SpecNew == Init /\ [][NextNew]_vars

--------------------------------------------------------------------------
(* The shop floor: products are bought, restocked, activated and          *)
(* deactivated between orders.  The argument of an order is assembled     *)
(* right before the call: AddLine touches no product, so it commutes with *)
(* the product operations and nothing is lost by keeping them apart.      *)

\* The store as main() hands it to start(): promotions attached.
InitShop == Init /\ \A p \in Pids : products[p].promotion = ShopConfig(p)

Idle == shopping_list = <<>>

NextShop ==
  \/ \E p \in Pids, q \in QtyRange : Idle /\ Buy(p, q) /\ UNCHANGED sold_out
  \/ \E p \in Pids, n \in (-1)..MaxStock : Idle /\ SetStock(p, n)
  \/ \E p \in Pids : Idle /\ Activate(p)
  \/ \E p \in Pids : Idle /\ Deactivate(p)
  \/ \E p \in Pids, q \in StockRange :
       Len(shopping_list) < MaxShopLines /\ AddLine(p, q)
  \/ Order /\ UNCHANGED sold_out

SpecShop == InitShop /\ [][NextShop]_vars

--------------------------------------------------------------------------
(* Listings: the products of a store are sold directly and through        *)
(* orders, restocked, activated and deactivated, and the store is asked   *)
(* for its active products in between.                                    *)

\* The product lists the store is built on: each product once, and a list
\* that holds a product twice and is not in the order of the identities.
ListedCatalogs == {<<1, 2, 3>>, <<3, 1, 3>>}

InitListing ==
  /\ \E stock \in [Pids -> StockRange] :
       products = [p \in Pids |->
                     [Constructed(stock)[p] EXCEPT
                        !.promotion = ShopConfig(p)]]
  /\ catalog \in ListedCatalogs
  /\ shopping_list = <<>>
  /\ sold_out = {}
  /\ last = [NoCall EXCEPT !.pre = products, !.precat = catalog]

\* History: the stock-tracked products whose stock the lines of an order
\* have taken from above 0 to 0 are put into sold_out.
RecordOrderSoldOut ==
  sold_out' = sold_out \cup
                {p \in Pids : /\ products[p].kind # "NonStockedProduct"
                              /\ products[p].quantity > 0
                              /\ products'[p].quantity = 0}

NextListing ==
  \/ \E p \in Pids, q \in QtyRange : Idle /\ Buy(p, q) /\ RecordSoldOut(p)
  \/ \E p \in Pids, n \in (-1)..MaxStock : Idle /\ SetStock(p, n)
  \/ \E p \in Pids : Idle /\ Activate(p)
  \/ \E p \in Pids : Idle /\ Deactivate(p)
  \/ \E p \in Pids, q \in StockRange :
       Len(shopping_list) < MaxListLines /\ AddLine(p, q)
  \/ Order /\ RecordOrderSoldOut
  \/ Idle /\ GetAllProducts

SpecListing == InitListing /\ [][NextListing]_vars

--------------------------------------------------------------------------
(* Properties of the purchase operation *)

\* The product the last call was made on, before and after the call.
Before == last.pre[last.pid]
After == products[last.pid]

\* C1: a purchase of q units, 1 <= q <= stock, on a Standard product
\* without promotion succeeds, leaves stock - q and returns q * price.
C1_PurchaseWithinStock ==
  (/\ last.op = "buy"
   /\ Before.kind = "Product"
   /\ Before.promotion = NoPromotion
   /\ 1 <= last.qty
   /\ last.qty <= Before.quantity)
  => /\ last.err = "none"
     /\ After.quantity = Before.quantity - last.qty
     /\ last.ret = Cents(last.qty * Before.price)

C1_Witness ==
  /\ last.op = "buy"
  /\ Before.kind = "Product"
  /\ Before.promotion = NoPromotion
  /\ last.qty = 1
  /\ Before.quantity = 2
  /\ After.quantity = 1
  /\ last.ret = Cents(10)

\* C2: a purchase of more than the stock on a Standard product fails with
\* the insufficient-stock error and leaves stock and active status as
\* they were.
C2_PurchaseBeyondStock ==
  (/\ last.op = "buy"
   /\ Before.kind = "Product"
   /\ last.qty > Before.quantity)
  => /\ last.err = "OutOfStockValueError"
     /\ After.quantity = Before.quantity
     /\ After.active = Before.active

C2_Witness ==
  /\ last.op = "buy"
  /\ Before.kind = "Product"
  /\ Before.quantity = 1
  /\ Before.active
  /\ last.qty = 2
  /\ last.err = "OutOfStockValueError"
  /\ After.quantity = 1

\* C9: on a Quantity-limited product the checks run in the order
\* invalid-quantity, maximum-exceeded, insufficient-stock, and a failing
\* purchase leaves the stock unchanged.
C9_LimitedCheckOrder ==
  (last.op = "buy" /\ Before.kind = "LimitedProduct")
  => /\ last.qty <= 0 => last.err = "ValueError"
     /\ (last.qty >= 1 /\ last.qty > Before.maximum)
          => last.err = "MaximumValueError"
     /\ last.err = "OutOfStockValueError"
          => (/\ 1 <= last.qty
              /\ last.qty <= Before.maximum
              /\ last.qty > Before.quantity)
     /\ last.err # "none" => After.quantity = Before.quantity

\* A quantity above both the maximum and the stock is refused for the
\* maximum.
C9_Witness ==
  /\ last.op = "buy"
  /\ Before.kind = "LimitedProduct"
  /\ last.qty > Before.maximum
  /\ last.qty > Before.quantity
  /\ Before.quantity >= 1
  /\ last.err = "MaximumValueError"
  /\ After.quantity = Before.quantity

--------------------------------------------------------------------------
(* Properties of the promotions *)

\* C5: the half-price-second-unit promotion returns
\* (q - floor(q/2)) * p + floor(q/2) * (p/2); apply(10, 3) = 25.
C5_SecondHalfPriceTotal ==
  (last.op = "apply_promotion" /\ last.promo.type = "SecondHalfPrice")
  => last.ret = Cents((last.qty - (last.qty \div 2)) * last.price)
                + (last.qty \div 2) * (last.price * 50)

\* C6: the percent-off promotion with percent p returns
\* q * P * (1 - p/100); apply(100, 2) with 30 percent = 140.
C6_PercentDiscountTotal ==
  (last.op = "apply_promotion" /\ last.promo.type = "PercentDiscount")
  => last.ret = last.qty * last.price * (100 - last.promo.percent)

--------------------------------------------------------------------------
(* Properties of order settlement *)

Lines == last.lines
Trace == last.trace

StockTracked(p) == last.pre[p].kind # "NonStockedProduct"

\* Units of product p taken by the successful lines among the first n.
RECURSIVE Taken(_, _)
Taken(p, n) ==
  IF n = 0 THEN 0
  ELSE Taken(p, n - 1)
       + (IF Trace[n].pid = p /\ Trace[n].err = "none" /\ StockTracked(p)
            THEN Trace[n].qty ELSE 0)

\* Sum of the totals of the successful lines among the first n.
RECURSIVE Paid(_)
Paid(n) ==
  IF n = 0 THEN 0
  ELSE Paid(n - 1) + (IF Trace[n].err = "none" THEN Trace[n].ret ELSE 0)

\* Line i was processed i-th, on the stock left by the lines before it.
ProcessedInOrder(i) ==
  /\ Trace[i].pid = Lines[i][1]
  /\ Trace[i].qty = Lines[i][2]
  /\ Trace[i].before
       = last.pre[Lines[i][1]].quantity - Taken(Lines[i][1], i - 1)

\* C3: an order whose quantities are all >= 1 processes every line in list
\* order and returns the sum of the totals of the successful lines; a line
\* failing with insufficient-stock or maximum-exceeded contributes zero,
\* leaves the stock alone and does not stop the later lines.
C3_OrderPartialFailure ==
  (last.op = "order" /\ \A i \in 1..Len(Lines) : Lines[i][2] >= 1)
  => /\ last.err = "none"
     /\ Len(Trace) = Len(Lines)
     /\ \A i \in 1..Len(Lines) :
          /\ ProcessedInOrder(i)
          /\ Trace[i].err \in
               {"none", "OutOfStockValueError", "MaximumValueError"}
          /\ Trace[i].err # "none"
               => Trace[i].ret = 0 /\ Trace[i].after = Trace[i].before
          /\ (Trace[i].err = "none" /\ StockTracked(Trace[i].pid))
               => Trace[i].after = Trace[i].before - Trace[i].qty
     /\ last.ret = Paid(Len(Lines))
     /\ \A p \in Pids :
          products[p].quantity = last.pre[p].quantity - Taken(p, Len(Lines))

\* Three lines, the second refused for its stock, the first and the third
\* sold.
C3_Witness ==
  /\ last.op = "order"
  /\ Len(Lines) = 3
  /\ Trace[1].err = "none"
  /\ Trace[2].err = "OutOfStockValueError"
  /\ Trace[3].err = "none"
  /\ Trace[1].ret > 0
  /\ Trace[3].ret > 0
  /\ last.ret = Trace[1].ret + Trace[3].ret

\* The first line of the order with a quantity <= 0 (0 if there is none).
FirstInvalid ==
  LET bad == {i \in 1..Len(Lines) : Lines[i][2] <= 0}
  IN IF bad = {} THEN 0 ELSE CHOOSE i \in bad : \A j \in bad : i <= j

\* C4: an order with a quantity <= 0 aborts with the invalid-quantity
\* error at the first such line, returns no total and processes no later
\* line.
C4_OrderInvalidQuantityAborts ==
  (last.op = "order" /\ FirstInvalid > 0)
  => /\ last.err = "ValueError"
     /\ last.ret = 0
     /\ Len(Trace) = FirstInvalid
     /\ Trace[FirstInvalid].err = "ValueError"
     /\ \A i \in 1..FirstInvalid : ProcessedInOrder(i)
     /\ \A p \in Pids :
          products[p].quantity
            = last.pre[p].quantity - Taken(p, FirstInvalid - 1)

\* The invalid line comes first and is followed by a line that a purchase
\* would have served.
C4_Witness ==
  /\ last.op = "order"
  /\ Len(Lines) >= 2
  /\ FirstInvalid = 1
  /\ Lines[2][2] >= 1
  /\ last.pre[Lines[2][1]].kind = "Product"
  /\ Lines[2][2] <= last.pre[Lines[2][1]].quantity
  /\ last.err = "ValueError"
  /\ products = last.pre

--------------------------------------------------------------------------
(* Properties of the catalog *)

NameIn(list, name) == \E i \in 1..Len(list) : products[list[i]].name = name

\* C7: removeProduct removes every entry carrying the given name, keeps
\* the other entries in their order and changes nothing when no entry
\* carries the name.
C7_RemoveAllByName ==
  last.op = "remove_product"
  => catalog = SelectSeq(last.precat,
                 LAMBDA e : products[e].name # products[last.pid].name)

\* Positions of other whose name is already in the receiving catalog.
CollidesWithCatalog ==
  {k \in 1..Len(last.other) :
     NameIn(last.precat, products[last.other[k]].name)}

\* Positions of other whose name is in the receiving catalog or carried
\* by an earlier product of other.
CollidesWithEarlier ==
  {k \in 1..Len(last.other) :
     \/ NameIn(last.precat, products[last.other[k]].name)
     \/ NameIn(SubSeq(last.other, 1, k - 1), products[last.other[k]].name)}

Least(S) == CHOOSE k \in S : \A j \in S : k <= j

\* C8 as stated: merge fails on the first product of other whose name is
\* in this catalog, and otherwise returns this catalog's products
\* followed by other's.
C8_MergeAsStated ==
  last.op = "__add__"
  => IF CollidesWithCatalog # {}
       THEN last.err = "ValueError" /\ last.at = Least(CollidesWithCatalog)
       ELSE last.err = "none" /\ last.out = last.precat \o last.other

\* C8 amended: merge fails on the first product of other whose name is
\* in this catalog or carried by an earlier product of other; when the
\* names of other are pairwise distinct and none is in this catalog it
\* returns this catalog's products followed by other's.
C8_MergeRejectsDuplicates ==
  last.op = "__add__"
  => IF CollidesWithEarlier # {}
       THEN last.err = "ValueError" /\ last.at = Least(CollidesWithEarlier)
       ELSE last.err = "none" /\ last.out = last.precat \o last.other

\* The second product of other is the first one that collides, the
\* receiving catalog being non-empty.
C8_Witness ==
  /\ last.op = "__add__"
  /\ last.precat # <<>>
  /\ Len(last.other) = 2
  /\ last.err = "ValueError"
  /\ last.at = 2
  /\ NameIn(last.precat, products[last.other[2]].name)

\* out lists exactly the active entries of list, in the order of list.
ActiveInOrder(out, list) ==
  \E f \in [1..Len(out) -> 1..Len(list)] :
    /\ \A i \in 1..Len(out) : out[i] = list[f[i]]
    /\ \A i, j \in 1..Len(out) : i < j => f[i] < f[j]
    /\ {f[i] : i \in 1..Len(out)}
         = {k \in 1..Len(list) : products[list[k]].active}

\* C10 as stated: listActive returns the active products in insertion
\* order, and a product whose stock a purchase has driven to 0 is in no
\* later listing.
C10_SoldOutNeverListed ==
  last.op = "get_all_products"
  => /\ ActiveInOrder(last.out, catalog)
     /\ \A p \in sold_out : \A i \in 1..Len(last.out) : last.out[i] # p

\* C10 amended: listActive returns the active products in insertion
\* order; a purchase, direct or as a line of an order, that drives the
\* stock of a stock-tracked product to 0 leaves it inactive, and an
\* inactive stock-tracked product stays inactive (so out of every
\* listing) whatever is called, until activate() is called on it.
C10_ListedUntilSoldOut ==
  [][/\ last'.op = "get_all_products"
          => ActiveInOrder(last'.out, catalog')
     /\ \A p \in Pids :
          products[p].kind # "NonStockedProduct"
          => /\ (/\ last'.op \in {"buy", "order"}
                 /\ products[p].quantity > 0
                 /\ products'[p].quantity = 0)
                  => (~products'[p].active /\ p \in sold_out')
             /\ (/\ ~products[p].active
                 /\ ~(last'.op = "activate" /\ last'.pid = p))
                  => ~products'[p].active]_vars

\* A listing without two listed products that purchases have sold out:
\* one has been restocked since, the store holds the other twice.
C10_Witness ==
  /\ last.op = "get_all_products"
  /\ catalog = <<3, 1, 3>>
  /\ sold_out = {1, 3}
  /\ products[1].quantity > 0
  /\ products[3].quantity = 0
  /\ last.out = <<>>

--------------------------------------------------------------------------
(* Properties of the product state *)

TrackedPids == {p \in Pids : products[p].kind # "NonStockedProduct"}

\* C11: with purchases and setStock calls only, a stock-tracked product
\* is active exactly when its stock is above 0.
C11_ActiveIffInStock ==
  \A p \in TrackedPids : products[p].active <=> products[p].quantity > 0

\* C12: no purchase, direct or as a line of an order, succeeds on a
\* product that is inactive when the call is made.
C12_InactiveNotOrderable ==
  /\ (last.op = "buy" /\ ~Before.active)
       => /\ last.err # "none"
          /\ last.ret = 0
          /\ After.quantity = Before.quantity
  /\ last.op = "order"
       => \A i \in 1..Len(last.trace) :
            ~last.pre[last.trace[i].pid].active
              => /\ last.trace[i].err # "none"
                 /\ last.trace[i].after = last.trace[i].before

\* C18: the stock of a product is never negative.
C18_StockNeverNegative ==
  /\ \A p \in Pids : products[p].quantity >= 0
  /\ \A i \in 1..Len(last.trace) : last.trace[i].after >= 0

\* An order has just taken the last units of a product and refused a
\* further line on it.
C18_Witness ==
  /\ last.op = "order"
  /\ Len(last.trace) = 2
  /\ last.trace[1].pid = last.trace[2].pid
  /\ last.trace[1].err = "none"
  /\ last.trace[1].before > 0
  /\ last.trace[1].after = 0
  /\ last.trace[2].err = "OutOfStockValueError"
  /\ products[last.trace[1].pid].quantity = 0

\* C13: the every-third-unit-free promotion charges the unit price for
\* every unit whose position in the purchase is not a multiple of 3;
\* apply(10, 3) = 20.
C13_ThirdOneFreeTotal ==
  (last.op = "apply_promotion" /\ last.promo.type = "ThirdOneFree")
  => /\ last.ret =
          Cents(Cardinality({k \in 1..last.qty : k % 3 # 0}) * last.price)
     /\ (last.price = 10 /\ last.qty = 3) => last.ret = Cents(20)

C13_Witness ==
  /\ last.op = "apply_promotion"
  /\ last.promo.type = "ThirdOneFree"
  /\ last.price = 10
  /\ last.qty = 3
  /\ last.ret = Cents(20)

UnlimitedPids == {p \in Pids : products[p].kind = "NonStockedProduct"}

\* C14: a purchase on an unlimited product succeeds for every q >= 1 and
\* fails only for q <= 0 with the invalid-quantity error; neither a
\* purchase nor a setStock call changes its stock field.
C14_UnlimitedPurchase ==
  /\ (last.op = "buy" /\ last.pid \in UnlimitedPids)
       => /\ last.qty >= 1 => last.err = "none"
          /\ last.err # "none" => (last.err = "ValueError" /\ last.qty <= 0)
          /\ After.quantity = Before.quantity
  /\ (last.op = "set_quantity" /\ last.pid \in UnlimitedPids)
       => After.quantity = Before.quantity
  /\ \A p \in UnlimitedPids : products[p].quantity = 0

C14_Witness ==
  /\ last.op = "buy"
  /\ last.pid \in UnlimitedPids
  /\ last.qty = MaxQty
  /\ last.err = "none"
  /\ last.ret = Cents(MaxQty * Before.price)
  /\ After.quantity = 0

\* C15: an unlimited product is active in every reachable state.
C15_UnlimitedAlwaysActive ==
  \A p \in UnlimitedPids : products[p].active

\* C17: setStock(n) on a stock-tracked product fails for n < 0, leaving
\* stock and active status as they were; for n >= 0 it stores n, and for
\* n < 1 it deactivates the product.
C17_SetStock ==
  (last.op = "set_quantity" /\ last.pid \in TrackedPids)
  => IF last.qty < 0
       THEN /\ last.err = "ValueError"
            /\ After.quantity = Before.quantity
            /\ After.active = Before.active
       ELSE /\ last.err = "none"
            /\ After.quantity = last.qty
            /\ last.qty < 1 => ~After.active

C17_Witness ==
  /\ last.op = "set_quantity"
  /\ last.pid \in TrackedPids
  /\ last.qty = 0
  /\ Before.active
  /\ Before.quantity = MaxStock
  /\ After.quantity = 0
  /\ ~After.active

\* C16 as stated: a construction fails exactly when the name is empty,
\* the price negative or the stock negative; otherwise it yields a product
\* that is active iff stock >= 1 (an unlimited product always).
C16_ConstructAsStated ==
  last.op = "__init__"
  => IF last.name = "" \/ last.price < 0 \/ last.qty < 0
       THEN last.err = "ValueError"
       ELSE /\ last.err = "none"
            /\ last.active <=>
                 (last.kind = "NonStockedProduct" \/ last.qty >= 1)

\* C16: a construction fails exactly when the name is empty, the price
\* negative, the stock negative or, for a quantity-limited product, the
\* maximum below 1; otherwise it yields a product that is active iff
\* stock >= 1 (an unlimited product always).
C16_Construct ==
  last.op = "__init__"
  => IF \/ last.name = ""
        \/ last.price < 0
        \/ last.qty < 0
        \/ (last.kind = "LimitedProduct" /\ last.maximum < 1)
       THEN last.err = "ValueError"
       ELSE /\ last.err = "none"
            /\ last.active <=>
                 (last.kind = "NonStockedProduct" \/ last.qty >= 1)

\* A quantity-limited product with valid name, price and stock but a
\* maximum of 0 is refused.
C16_Witness ==
  /\ last.op = "__init__"
  /\ last.kind = "LimitedProduct"
  /\ last.name # ""
  /\ last.price >= 0
  /\ last.qty >= 1
  /\ last.maximum = 0
  /\ last.err = "ValueError"

Entries(p) == Cardinality({i \in 1..Len(catalog) : catalog[i] = p})

StockOf(p) == IF p \in UnlimitedPids THEN 0 ELSE products[p].quantity

\* C19: totalStock() is the sum, over the products, of the number of
\* catalog entries of the product times its current stock, active or not,
\* with 0 for an unlimited product.
C19_TotalStock ==
  last.op = "get_total_quantity"
  => last.ret = Entries(1) * StockOf(1) + Entries(2) * StockOf(2)
                  + Entries(3) * StockOf(3)

\* The catalog holds an inactive product with stock twice, next to an
\* unlimited product.
C19_Witness ==
  /\ last.op = "get_total_quantity"
  /\ \E p \in TrackedPids :
       /\ Entries(p) = 2
       /\ ~products[p].active
       /\ products[p].quantity > 0
       /\ last.ret = 2 * products[p].quantity
  /\ \E u \in UnlimitedPids : Entries(u) = 1

\* C20: a merge leaves the receiving catalog's product sequence as it was
\* before the call, whether it succeeded or failed.
C20_MergeKeepsReceiver ==
  last.op = "__add__" => catalog = last.precat

\* The successful lines on product p among the first n of the order.
SoldLines(p, n) ==
  {i \in 1..n : Trace[i].pid = p /\ Trace[i].err = "none"}

\* C21: when an order aborts with the invalid-quantity error at line k,
\* every product holds what the successful lines before k left: the stock
\* lowered by the units they took, inactive if one of them brought the
\* stock below 1; a product none of them sold, the products of line k and
\* of the later lines among them, is as it was before the call.
C21_NoRollback ==
  (last.op = "order" /\ last.err = "ValueError")
  => LET k == Len(Trace)
     IN /\ k >= 1
        /\ Trace[k].err = "ValueError"
        /\ \A p \in Pids :
             IF SoldLines(p, k - 1) = {}
               THEN products[p] = last.pre[p]
               ELSE /\ products[p].quantity
                         = last.pre[p].quantity - Taken(p, k - 1)
                    /\ products[p].active
                         <=> /\ last.pre[p].active
                             /\ StockTracked(p)
                                  => \A i \in SoldLines(p, k - 1) :
                                       Trace[i].after >= 1
                    /\ [products[p] EXCEPT !.quantity = 0, !.active = TRUE]
                         = [last.pre[p] EXCEPT !.quantity = 0,
                                               !.active = TRUE]

\* The first line sells a product out, the second has quantity 0 on
\* another product, a third line follows.
C21_Witness ==
  /\ last.op = "order"
  /\ last.err = "ValueError"
  /\ Len(Lines) = 3
  /\ Len(Trace) = 2
  /\ Trace[1].err = "none"
  /\ Trace[1].pid # Trace[2].pid
  /\ last.pre[Trace[1].pid].active
  /\ last.pre[Trace[1].pid].quantity > 0
  /\ products[Trace[1].pid].quantity = 0
  /\ ~products[Trace[1].pid].active
  /\ products[Trace[2].pid] = last.pre[Trace[2].pid]
  /\ products[Lines[3][1]].quantity > 0

\* C22: a successful purchase of q units on a stock-tracked product with
\* a promotion attached leaves stock - q, deactivates the product when
\* that is below 1, and returns what the promotion computes for the
\* product's price and q.
C22_PromotedPurchase ==
  (/\ last.op = "buy"
   /\ last.err = "none"
   /\ last.pid \in TrackedPids
   /\ Before.promotion # NoPromotion)
  => /\ After.quantity = Before.quantity - last.qty
     /\ After.quantity < 1 => ~After.active
     /\ After.quantity >= 1 => After.active = Before.active
     /\ last.ret = apply_promotion(Before.promotion, Before.price, last.qty)

\* Two units bought at second-half-price empty the stock.
C22_Witness ==
  /\ last.op = "buy"
  /\ last.err = "none"
  /\ Before.kind = "Product"
  /\ Before.promotion.type = "SecondHalfPrice"
  /\ Before.active
  /\ last.qty = 2
  /\ Before.quantity = 2
  /\ After.quantity = 0
  /\ ~After.active
  /\ last.ret # Cents(last.qty * Before.price)

====
